---- MODULE Spec2Model ----
(***************************************************************************)
(* Admission and deduplication layer of agent-brock: the bounded           *)
(* concurrency TaskQueue (task-queue.ts) and the producers that offer      *)
(* work items to it (planka-handler.ts, github-handler.ts, heartbeat.ts,   *)
(* webhook-server.ts, scheduler.ts).                                       *)
(***************************************************************************)
EXTENDS Integers, Sequences, FiniteSets, TLC

(* ------------------------------ bounds -------------------------------- *)

\* Largest concurrency ceiling a queue is constructed with.
MaxCeiling == 2

\* Largest number of tasks admitted to the queue in one behaviour.
MaxAdmitted == 4

\* The clock runs from 0 to MaxTtlSpans * (itemTtlMs + 1).
MaxTtlSpans == 1

\* Largest number of heartbeat ticks suspended at an await at one time.
MaxSuspendedTicks == 2

\* Largest number of times Scheduler.start() is called.
MaxStarts == 1

\* Largest number of scheduleCronTasks calls in one behaviour.
MaxLoads == 2

(* ------------------------- values of the model ------------------------ *)

\* Task ids offered to the queue by the generic client of TaskQueue.
TaskIds == {"a", "b", "c", "d"}

\* QueuedTask.source: the producer tag.
Sources == {"github", "planka", "heartbeat", "scheduler"}

\* The tags the generic client of TaskQueue uses.
ClientSources == {"planka", "heartbeat"}

\* What QueuedTask.execute does when drain invokes it: it returns a promise
\* (which later fulfils or rejects), or it throws before returning one.
Executes == {"promise", "throws"}

\* How a returned promise settles.
Outcomes == {"fulfilled", "rejected"}

\* Planka card ids that webhooks and the board listing mention.
Cards == {"1"}

\* The pull requests of the configured repositories.
PullRequests == {[repo |-> "o/r", number |-> 7]}

\* FreeScout conversation ids and Beszel system ids.
Conversations == {"5"}

Systems == {"s1"}

\* A notifySlackChannel setting: unset ('') or a channel.
Channels == {"", "C0"}

\* pull_request webhook actions: three of the actionable ones and one other.
PrActions == {"opened", "ready_for_review", "synchronize", "closed"}

\* Heartbeat.itemTtlMs
itemTtlMs == 60 * 60 * 1000

\* The amount the clock advances by between the events of the producers:
\* just over one TTL, so that a sweep finds the older entries expired.
ClockSteps == {itemTtlMs + 1}

\* WebhookServer.deduplicationTtlMs
deduplicationTtlMs == 10 * 60 * 1000

\* The instants the clock of the cache specifications visits: each multiple
\* of a TTL and the millisecond after it.
ClockInstants ==
    {k * ttl + e : k \in 0..MaxTtlSpans, ttl \in {deduplicationTtlMs, itemTtlMs},
                   e \in {0, 1}}

\* X-GitHub-Delivery header values; '' is a request without the header.
DeliveryIds == {"d1"}

\* The x-hub-signature-256 header of a request against the HMAC of its body
\* under the configured secret: absent, of another length than the expected
\* digest, of that length and different, or equal.
Signatures == {"missing", "wrongLength", "mismatch", "valid"}

\* config.github.webhookSecret
githubWebhookSecret == "s3cret"

\* A request body: text that is not JSON, or a payload with the fields the
\* GitHub handler reads.
GithubPayload(json, action, draft, mention) ==
    [json |-> json, action |-> action, draft |-> draft,
     pr |-> [repo |-> "o/r", number |-> 7], mention |-> mention, commentId |-> 11]

\* The X-GitHub-Event header and body of the requests GitHub sends.
GithubEvents ==
    {[event |-> "pull_request", body |-> GithubPayload(FALSE, "", FALSE, FALSE)],
     [event |-> "pull_request", body |-> GithubPayload(TRUE, "opened", FALSE, FALSE)],
     [event |-> "pull_request", body |-> GithubPayload(TRUE, "closed", FALSE, FALSE)],
     [event |-> "issue_comment", body |-> GithubPayload(TRUE, "created", FALSE, FALSE)],
     [event |-> "ping", body |-> GithubPayload(TRUE, "", FALSE, FALSE)],
     [event |-> "", body |-> GithubPayload(TRUE, "opened", FALSE, FALSE)]}

\* POST /webhook/github requests: the events above under a valid signature,
\* and one of them under each other signature.
GithubRequests ==
    {[signature |-> "valid", deliveryId |-> d, event |-> e.event, body |-> e.body] :
        d \in DeliveryIds \cup {""}, e \in GithubEvents}
    \cup {[signature |-> g, deliveryId |-> d, event |-> "pull_request",
           body |-> GithubPayload(TRUE, "opened", FALSE, FALSE)] :
        g \in Signatures \ {"valid"}, d \in DeliveryIds \cup {""}}

\* Cron expressions node-cron's validate accepts.
CronExpressions == {"0 9 * * *", "*/5 * * * *"}

\* An element of the array in jobs.json: null, or an object of which a
\* missing or empty field reads as ''.
JobEntry(name, schedule, prompt, slackChannel) ==
    [isNull |-> FALSE, name |-> name, schedule |-> schedule, prompt |-> prompt,
     slackChannel |-> slackChannel]

NullEntry ==
    [isNull |-> TRUE, name |-> "", schedule |-> "", prompt |-> "", slackChannel |-> ""]

\* Two valid entries, the second without a channel of its own.
ValidEntries ==
    {JobEntry("X", "0 9 * * *", "p", "C0"), JobEntry("Y", "*/5 * * * *", "p", "")}

\* One entry for each way of being invalid (no name, no schedule, no prompt,
\* a schedule that is not a cron expression), and null.
InvalidEntries ==
    {JobEntry("", "0 9 * * *", "p", "C0"),
     JobEntry("N", "", "p", "C0"),
     JobEntry("N", "0 9 * * *", "", "C0"),
     JobEntry("N", "every day", "p", "C0"),
     NullEntry}

\* Lists without repetition over a set, of length at most 2.
ListsOf(S) ==
    {<<>>} \cup {<<x>> : x \in S} \cup {p \in S \X S : p[1] # p[2]}

VARIABLES
    maxConcurrent,  \* TaskQueue.maxConcurrent
    queue,          \* TaskQueue.queue: sequence of pending tasks
    activeTasks,    \* TaskQueue.activeTasks: map id -> task
    admittedCount,  \* history: number of tasks enqueue has pushed
    startLog,       \* history: uids in the order execute() was invoked
    settled,        \* history: uids whose finally callback has run
    lastCall,       \* history: the operation of the last step and its result
    config,         \* config.{github,freescout,beszel}.notifySlackChannel
    now,            \* Date.now()
    processedItems, \* Heartbeat.processedItems: map item key -> timestamp
    plankaAwaits,   \* checkPlankaCards calls suspended at `await import(...)`
    recentDeliveries, \* WebhookServer.recentDeliveries: delivery id -> timestamp
    nextCleanup,    \* when the cleanupDeliveries interval timer is next due
    jobs,           \* Scheduler.jobs
    cronTasks,      \* Scheduler.cronTasks: the timers the scheduler tracks
    runningTimers,  \* the node-cron timers that are started and not stopped
    loadCount,      \* history: number of scheduleCronTasks calls
    watchers        \* listeners fs.watchFile has registered on jobs.json

queueVars == <<maxConcurrent, queue, activeTasks, admittedCount, startLog, settled, lastCall>>

producerVars == <<config, now, processedItems, plankaAwaits>>

webhookVars == <<recentDeliveries, nextCleanup>>

schedulerVars == <<jobs, cronTasks, runningTimers, loadCount, watchers>>

vars == <<maxConcurrent, queue, activeTasks, admittedCount, startLog, settled,
          lastCall, config, now, processedItems, plankaAwaits,
          recentDeliveries, nextCleanup,
          jobs, cronTasks, runningTimers, loadCount, watchers>>

(* ------------------------------ Map helpers --------------------------- *)

EmptyMap == [k \in {} |-> 0]

MapSet(m, k, v) == [x \in (DOMAIN m) \cup {k} |-> IF x = k THEN v ELSE m[x]]

MapDelete(m, k) == [x \in (DOMAIN m) \ {k} |-> m[x]]

\* Array.prototype.some((t) => t.id === taskId) over the pending queue.
isPendingIn(q, taskId) == \E i \in 1..Len(q) : q[i].id = taskId

(* ------------------------------ TaskQueue ----------------------------- *)

\* The queue's fields as one value, threaded through enqueue and drain.
QueueState ==
    [queue |-> queue, activeTasks |-> activeTasks, startLog |-> startLog,
     admittedCount |-> admittedCount, raised |-> FALSE]

\* A QueuedTask {id, source, execute}. unit names the external item the
\* execute closure captures (a card id, a pull request).
QueuedTask(id, source, execute, unit) ==
    [id |-> id, source |-> source, execute |-> execute, unit |-> unit]

\* The task as the queue holds it: uid numbers the admitted tasks, so that
\* two tasks admitted under the same id at different times can be told apart.
Admitted(st, task) ==
    [id |-> task.id, source |-> task.source, execute |-> task.execute,
     unit |-> task.unit, uid |-> st.admittedCount + 1]

activeCount == Cardinality(DOMAIN activeTasks)

pendingCount == Len(queue)

isActive(taskId) == taskId \in DOMAIN activeTasks

isPending(taskId) == isPendingIn(queue, taskId)

pendingIds == {queue[i].id : i \in 1..Len(queue)}

\* drain() with the slot test off by one (<= for <).
RECURSIVE drainOffByOne(_)
drainOffByOne(st) ==
    IF Cardinality(DOMAIN st.activeTasks) <= maxConcurrent /\ Len(st.queue) > 0
    THEN LET task == Head(st.queue)
             st1 == [st EXCEPT !.queue = Tail(st.queue),
                               !.activeTasks = MapSet(st.activeTasks, task.id, task),
                               !.startLog = Append(st.startLog, task.uid)]
         IN IF task.execute = "throws"
            THEN [st1 EXCEPT !.raised = TRUE]
            ELSE drainOffByOne(st1)
    ELSE st

\* drain() taking the newest pending task (pop) instead of the oldest (shift).
RECURSIVE drainLifo(_)
drainLifo(st) ==
    IF Cardinality(DOMAIN st.activeTasks) < maxConcurrent /\ Len(st.queue) > 0
    THEN LET task == st.queue[Len(st.queue)]
             st1 == [st EXCEPT !.queue = SubSeq(st.queue, 1, Len(st.queue) - 1),
                               !.activeTasks = MapSet(st.activeTasks, task.id, task),
                               !.startLog = Append(st.startLog, task.uid)]
         IN IF task.execute = "throws"
            THEN [st1 EXCEPT !.raised = TRUE]
            ELSE drainLifo(st1)
    ELSE st

\* drain(): while a slot is free and a task is pending, shift the head, put
\* it in the active map and invoke its execute(). An execute() that throws
\* leaves the loop by the exception: the task stays in the active map and no
\* completion callback is attached to it.
RECURSIVE drain(_)
drain(st) ==
    IF Cardinality(DOMAIN st.activeTasks) < maxConcurrent /\ Len(st.queue) > 0
    THEN LET task == Head(st.queue)
             st1 == [st EXCEPT !.queue = Tail(st.queue),
                               !.activeTasks = MapSet(st.activeTasks, task.id, task),
                               !.startLog = Append(st.startLog, task.uid)]
         IN IF task.execute = "throws"
            THEN [st1 EXCEPT !.raised = TRUE]
            ELSE drain(st1)
    ELSE st

\* enqueue() whose duplicate test looks at the active map only.
enqueueActiveOnly(st, task) ==
    IF task.id \in DOMAIN st.activeTasks
    THEN [state |-> st, result |-> "false"]
    ELSE LET d == drain([st EXCEPT !.queue = Append(st.queue, Admitted(st, task)),
                                   !.admittedCount = st.admittedCount + 1])
         IN [state |-> d, result |-> IF d.raised THEN "raised" ELSE "true"]

\* enqueue() whose duplicate test compares id and source.
enqueuePerSource(st, task) ==
    IF \/ (task.id \in DOMAIN st.activeTasks
           /\ st.activeTasks[task.id].source = task.source)
       \/ \E i \in 1..Len(st.queue) :
             st.queue[i].id = task.id /\ st.queue[i].source = task.source
    THEN [state |-> st, result |-> "false"]
    ELSE LET d == drain([st EXCEPT !.queue = Append(st.queue, Admitted(st, task)),
                                   !.admittedCount = st.admittedCount + 1])
         IN [state |-> d, result |-> IF d.raised THEN "raised" ELSE "true"]

\* enqueue(task): the result is "false" for a duplicate id, "true" after a
\* push and drain, "raised" when drain let an exception of execute() escape.
enqueue(st, task) ==
    IF task.id \in DOMAIN st.activeTasks \/ isPendingIn(st.queue, task.id)
    THEN [state |-> st, result |-> "false"]
    ELSE LET d == drain([st EXCEPT !.queue = Append(st.queue, Admitted(st, task)),
                                   !.admittedCount = st.admittedCount + 1])
         IN [state |-> d, result |-> IF d.raised THEN "raised" ELSE "true"]

\* A finally handler that deletes the key and does not drain.
onSettledNoDrain(st, taskId) ==
    [st EXCEPT !.activeTasks = MapDelete(st.activeTasks, taskId)]

\* A finally handler that puts the settled task back at the tail (a retry).
onSettledRequeue(st, taskId) ==
    drain([st EXCEPT !.activeTasks = MapDelete(st.activeTasks, taskId),
                     !.queue = Append(st.queue, st.activeTasks[taskId])])

\* A finally handler that empties the active map.
onSettledClear(st, taskId) ==
    drain([st EXCEPT !.activeTasks = EmptyMap])

\* The .catch(...).finally(...) chain of a started task: delete the key from
\* the active map, then drain.
onSettled(st, taskId) ==
    drain([st EXCEPT !.activeTasks = MapDelete(st.activeTasks, taskId)])

(* ------------------------------ producers ----------------------------- *)

\* PlankaHandler: `planka-card-${cardId}`
plankaTaskId(cardId) == "planka-card-" \o cardId

\* GithubHandler.handlePullRequest: `github-pr-${repo}-${number}`
githubPrTaskId(repo, number) == "github-pr-" \o repo \o "-" \o ToString(number)

\* The external item a body works on: workOnCard(cardId), a review of a PR.
cardUnit(cardId) == "card " \o cardId

prUnit(repo, number) == "pr " \o repo \o "#" \o ToString(number)

\* GithubHandler.handlePullRequest: an action that is not actionable and a
\* draft (but for synchronize) are ignored, any other enqueues
\* github-pr-<repo>-<number>. The result is the queue after the call.
handlePullRequest(st, pr, action, draft) ==
    IF \/ action \notin {"opened", "reopened", "ready_for_review", "synchronize"}
       \/ (draft /\ action # "synchronize")
    THEN st
    ELSE enqueue(st, QueuedTask(githubPrTaskId(pr.repo, pr.number), "github",
                                "promise", prUnit(pr.repo, pr.number))).state

\* What a heartbeat check threads through its loop: the queue and the cache.
\* offered is history: the ids of the tasks the call has offered so far.
HbState == [q |-> QueueState, processedItems |-> processedItems, offered |-> {}]

\* A lookup that never finds an item.
isProcessedNever(items, key) == FALSE

\* Heartbeat.isProcessed
isProcessed(items, key) == key \in DOMAIN items

\* Heartbeat.markProcessed: set(key, {timestamp: Date.now()})
markProcessed(items, key) == MapSet(items, key, now)

\* A sweep that deletes nothing.
cleanupProcessedItemsNever(items) == items

\* A sweep that also deletes the entries exactly as old as the TTL.
cleanupProcessedItemsAtTtl(items) ==
    [k \in {x \in DOMAIN items : ~(now - items[x] >= itemTtlMs)} |-> items[k]]

\* Heartbeat.cleanupProcessedItems: delete the entries older than the TTL.
cleanupProcessedItems(items) ==
    [k \in {x \in DOMAIN items : ~(now - items[x] > itemTtlMs)} |-> items[k]]

\* The queue after taskQueue.enqueue(task), in a heartbeat state.
hbEnqueue(hb, task) ==
    [hb EXCEPT !.q = enqueue(hb.q, task).state, !.offered = @ \cup {task.id}]

\* Heartbeat.checkGithubPRs over the pull requests `gh pr list` returned
\* (the lists of all configured repositories, one after the other).
RECURSIVE checkGithubPRs(_, _)
checkGithubPRs(hb, prs) ==
    IF prs = <<>> THEN hb
    ELSE LET pr == Head(prs)
             itemKey == "github-pr:" \o pr.repo \o "/" \o ToString(pr.number)
             marked == [hb EXCEPT !.processedItems = markProcessed(@, itemKey)]
             task == QueuedTask(
                 "heartbeat-github-pr-" \o pr.repo \o "-" \o ToString(pr.number),
                 "heartbeat", "promise", prUnit(pr.repo, pr.number))
         IN IF isProcessed(hb.processedItems, itemKey)
            THEN checkGithubPRs(hb, Tail(prs))
            ELSE IF config.github = ""
            THEN checkGithubPRs(marked, Tail(prs))
            ELSE checkGithubPRs(hbEnqueue(marked, task), Tail(prs))

\* A checkPlankaCards that suspends at the import before it marks the card.
RECURSIVE checkPlankaCardsMarkLate(_, _)
checkPlankaCardsMarkLate(hb, cards) ==
    IF cards = <<>> THEN [hb |-> hb, suspended |-> <<>>]
    ELSE LET cardId == Head(cards)
             itemKey == "planka-card:" \o cardId
         IN IF isProcessed(hb.processedItems, itemKey)
            THEN checkPlankaCardsMarkLate(hb, Tail(cards))
            ELSE IF plankaTaskId(cardId) \in DOMAIN hb.q.activeTasks
            THEN checkPlankaCardsMarkLate(hb, Tail(cards))
            ELSE [hb |-> hb,
                  suspended |-> <<[cardId |-> cardId, rest |-> Tail(cards)]>>]

\* Heartbeat.checkPlankaCards from the head of `cards` to its next
\* `await import(...)`: a card that is processed, or whose webhook task is
\* active, is skipped; the first other card is marked processed and the call
\* suspends before it enqueues.
RECURSIVE checkPlankaCards(_, _)
checkPlankaCards(hb, cards) ==
    IF cards = <<>> THEN [hb |-> hb, suspended |-> <<>>]
    ELSE LET cardId == Head(cards)
             itemKey == "planka-card:" \o cardId
         IN IF isProcessed(hb.processedItems, itemKey)
            THEN checkPlankaCards(hb, Tail(cards))
            ELSE IF plankaTaskId(cardId) \in DOMAIN hb.q.activeTasks
            THEN checkPlankaCards(hb, Tail(cards))
            ELSE [hb |-> [hb EXCEPT !.processedItems = markProcessed(@, itemKey)],
                  suspended |-> <<[cardId |-> cardId, rest |-> Tail(cards)]>>]

\* Heartbeat.checkFreescoutTickets over the active conversations.
RECURSIVE checkFreescoutTickets(_, _)
checkFreescoutTickets(hb, convs) ==
    IF convs = <<>> THEN hb
    ELSE LET convId == Head(convs)
             itemKey == "freescout:" \o convId
             marked == [hb EXCEPT !.processedItems = markProcessed(@, itemKey)]
             task == QueuedTask("heartbeat-freescout-" \o convId, "heartbeat",
                                "promise", "ticket " \o convId)
         IN IF isProcessed(hb.processedItems, itemKey)
            THEN checkFreescoutTickets(hb, Tail(convs))
            ELSE IF config.freescout = ""
            THEN checkFreescoutTickets(marked, Tail(convs))
            ELSE checkFreescoutTickets(hbEnqueue(marked, task), Tail(convs))

\* Heartbeat.checkBeszelHealth over the systems whose stats show an anomaly.
RECURSIVE checkBeszelHealth(_, _)
checkBeszelHealth(hb, systems) ==
    IF systems = <<>> THEN hb
    ELSE LET systemId == Head(systems)
             itemKey == "beszel-check:" \o systemId
             marked == [hb EXCEPT !.processedItems = markProcessed(@, itemKey)]
             task == QueuedTask("heartbeat-beszel-" \o systemId, "heartbeat",
                                "promise", "system " \o systemId)
         IN IF isProcessed(hb.processedItems, itemKey)
            THEN checkBeszelHealth(hb, Tail(systems))
            ELSE IF config.beszel = ""
            THEN checkBeszelHealth(marked, Tail(systems))
            ELSE checkBeszelHealth(hbEnqueue(marked, task), Tail(systems))

\* checkPlankaCards resumed after `await import(...)`: the enqueue for the
\* card that was marked, then the rest of the loop to its next await.
resumePlankaCards(hb, await) ==
    checkPlankaCards(
        hbEnqueue(hb, QueuedTask("heartbeat-planka-" \o await.cardId, "heartbeat",
                                 "promise", cardUnit(await.cardId))),
        await.rest)

\* The sequence s without its i-th element.
RemoveAt(s, i) == SubSeq(s, 1, i - 1) \o SubSeq(s, i + 1, Len(s))

\* A second valid entry of the name and schedule of the first, with a
\* prompt of its own.
SameNameEntry == JobEntry("X", "0 9 * * *", "q", "C0")

\* The valid entry with a channel of its own.
JobX == JobEntry("X", "0 9 * * *", "p", "C0")

\* The arrays jobs.json holds: the lists of valid entries, the lists with
\* one invalid entry before, after or without the valid entry X, and the
\* list of two entries that share a name.
JobLists ==
    ListsOf(ValidEntries)
        \cup {<<e>> : e \in InvalidEntries}
        \cup {<<e, JobX>> : e \in InvalidEntries}
        \cup {<<JobX, e>> : e \in InvalidEntries}
        \cup {<<JobX, SameNameEntry>>}

\* What jobs.json can be when the scheduler reads it: absent, unreadable,
\* text that is not JSON, JSON that is not an array, or an array of entries.
JobFiles ==
    {[kind |-> k, entries |-> <<>>] :
        k \in {"missing", "unreadable", "invalidJson", "notArray"}}
    \cup {[kind |-> "array", entries |-> l] : l \in JobLists}

(* ---------------------------- webhook server -------------------------- *)

\* A cleanup that also deletes the ids exactly as old as the TTL.
cleanupDeliveriesAtTtl(items) ==
    [k \in {x \in DOMAIN items : ~(now - items[x] >= deduplicationTtlMs)} |-> items[k]]

\* WebhookServer.cleanupDeliveries: delete the ids older than the TTL.
cleanupDeliveries(items) ==
    [k \in {x \in DOMAIN items : ~(now - items[x] > deduplicationTtlMs)} |-> items[k]]

\* GithubHandler.handleIssueComment: a comment that was created and mentions
\* the bot enqueues github-comment-<repo>-<number>-<comment id>
\* (payload.mention: a bot username is configured and the body names it).
handleIssueComment(st, payload) ==
    IF payload.action # "created" THEN st
    ELSE IF ~payload.mention THEN st
    ELSE enqueue(st, QueuedTask("github-comment-" \o payload.pr.repo \o "-"
                                    \o ToString(payload.pr.number) \o "-"
                                    \o ToString(payload.commentId),
                                "github", "promise",
                                "comment " \o ToString(payload.commentId))).state

\* GithubHandler.handle: dispatch on the x-github-event header.
handle(st, event, payload) ==
    IF event = "" THEN st
    ELSE IF event = "pull_request"
    THEN handlePullRequest(st, payload.pr, payload.action, payload.draft)
    ELSE IF event = "issue_comment" THEN handleIssueComment(st, payload)
    ELSE st

\* A handler without the lookup of the delivery id.
handleGithubWebhookNoDedup(st, deliveries, req) ==
    IF githubWebhookSecret # "" /\ req.signature = "missing"
    THEN [q |-> st, recentDeliveries |-> deliveries, status |-> "401 Missing signature"]
    ELSE IF githubWebhookSecret # "" /\ req.signature = "wrongLength"
    THEN [q |-> st, recentDeliveries |-> deliveries, status |-> "raised"]
    ELSE IF githubWebhookSecret # "" /\ req.signature = "mismatch"
    THEN [q |-> st, recentDeliveries |-> deliveries, status |-> "401 Invalid signature"]
    ELSE LET marked == IF req.deliveryId # ""
                       THEN MapSet(deliveries, req.deliveryId, now)
                       ELSE deliveries
         IN IF ~req.body.json
            THEN [q |-> st, recentDeliveries |-> marked, status |-> "400 Invalid JSON"]
            ELSE [q |-> handle(st, req.event, req.body), recentDeliveries |-> marked,
                  status |-> "202 accepted"]

\* A handler that stamps the id of a duplicate delivery afresh.
handleGithubWebhookRefresh(st, deliveries, req) ==
    IF githubWebhookSecret # "" /\ req.signature = "missing"
    THEN [q |-> st, recentDeliveries |-> deliveries, status |-> "401 Missing signature"]
    ELSE IF githubWebhookSecret # "" /\ req.signature = "wrongLength"
    THEN [q |-> st, recentDeliveries |-> deliveries, status |-> "raised"]
    ELSE IF githubWebhookSecret # "" /\ req.signature = "mismatch"
    THEN [q |-> st, recentDeliveries |-> deliveries, status |-> "401 Invalid signature"]
    ELSE IF req.deliveryId # "" /\ req.deliveryId \in DOMAIN deliveries
    THEN [q |-> st, recentDeliveries |-> MapSet(deliveries, req.deliveryId, now),
          status |-> "200 duplicate"]
    ELSE LET marked == IF req.deliveryId # ""
                       THEN MapSet(deliveries, req.deliveryId, now)
                       ELSE deliveries
         IN IF ~req.body.json
            THEN [q |-> st, recentDeliveries |-> marked, status |-> "400 Invalid JSON"]
            ELSE [q |-> handle(st, req.event, req.body), recentDeliveries |-> marked,
                  status |-> "202 accepted"]

\* WebhookServer.handleGithubWebhook: the signature check, the lookup and
\* insertion of the delivery id, the parse of the body, the response and the
\* call of the GitHub handler. status is the response ("raised" when
\* timingSafeEqual throws on buffers of different lengths).
handleGithubWebhook(st, deliveries, req) ==
    IF githubWebhookSecret # "" /\ req.signature = "missing"
    THEN [q |-> st, recentDeliveries |-> deliveries, status |-> "401 Missing signature"]
    ELSE IF githubWebhookSecret # "" /\ req.signature = "wrongLength"
    THEN [q |-> st, recentDeliveries |-> deliveries, status |-> "raised"]
    ELSE IF githubWebhookSecret # "" /\ req.signature = "mismatch"
    THEN [q |-> st, recentDeliveries |-> deliveries, status |-> "401 Invalid signature"]
    ELSE IF req.deliveryId # "" /\ req.deliveryId \in DOMAIN deliveries
    THEN [q |-> st, recentDeliveries |-> deliveries, status |-> "200 duplicate"]
    ELSE LET marked == IF req.deliveryId # ""
                       THEN MapSet(deliveries, req.deliveryId, now)
                       ELSE deliveries
         IN IF ~req.body.json
            THEN [q |-> st, recentDeliveries |-> marked, status |-> "400 Invalid JSON"]
            ELSE [q |-> handle(st, req.event, req.body), recentDeliveries |-> marked,
                  status |-> "202 accepted"]

(* ------------------------------ scheduler ----------------------------- *)

\* The elements of a sequence.
Range(seq) == {seq[i] : i \in 1..Len(seq)}

\* The scheduler's fields as one value, threaded through its methods.
SchedulerState ==
    [jobs |-> jobs, cronTasks |-> cronTasks, runningTimers |-> runningTimers,
     loadCount |-> loadCount]

\* cron.validate
validate(schedule) == schedule \in CronExpressions

\* A loop that pushes every entry with a name, a schedule and a prompt,
\* without asking cron.validate.
RECURSIVE loadEntriesUnvalidated(_, _)
loadEntriesUnvalidated(pushed, entries) ==
    IF entries = <<>> THEN [jobs |-> pushed, raised |-> FALSE]
    ELSE LET job == Head(entries)
         IN IF job.isNull THEN [jobs |-> pushed, raised |-> TRUE]
            ELSE IF job.name = "" \/ job.schedule = "" \/ job.prompt = ""
            THEN loadEntriesUnvalidated(pushed, Tail(entries))
            ELSE loadEntriesUnvalidated(Append(pushed, [name |-> job.name,
                                                        schedule |-> job.schedule,
                                                        prompt |-> job.prompt,
                                                        slackChannel |-> job.slackChannel]),
                                        Tail(entries))

\* The loop of loadJobs over the parsed array, from the jobs pushed so far:
\* an entry without name, schedule or prompt and one whose schedule does not
\* validate are skipped, any other is pushed. Reading a field of null throws.
RECURSIVE loadEntries(_, _)
loadEntries(pushed, entries) ==
    IF entries = <<>> THEN [jobs |-> pushed, raised |-> FALSE]
    ELSE LET job == Head(entries)
         IN IF job.isNull THEN [jobs |-> pushed, raised |-> TRUE]
            ELSE IF job.name = "" \/ job.schedule = "" \/ job.prompt = ""
            THEN loadEntries(pushed, Tail(entries))
            ELSE IF ~validate(job.schedule)
            THEN loadEntries(pushed, Tail(entries))
            ELSE loadEntries(Append(pushed, [name |-> job.name,
                                             schedule |-> job.schedule,
                                             prompt |-> job.prompt,
                                             slackChannel |-> job.slackChannel]),
                             Tail(entries))

\* Scheduler.scheduleCronTasks: cron.schedule starts one timer for each job
\* of the list, and the timer is pushed onto cronTasks. A timer is named by
\* the call that made it and its place in the list.
scheduleCronTasks(sch) ==
    LET made == [i \in 1..Len(sch.jobs) |->
                    [load |-> sch.loadCount + 1, index |-> i, job |-> sch.jobs[i]]]
    IN [sch EXCEPT !.cronTasks = @ \o made,
                   !.runningTimers = @ \cup Range(made),
                   !.loadCount = @ + 1]

\* A stopCronTasks that forgets the tracked timers without stopping them.
stopCronTasksForgetOnly(sch) == [sch EXCEPT !.cronTasks = <<>>]

\* Scheduler.stopCronTasks: stop every tracked timer, then forget them.
stopCronTasks(sch) ==
    [sch EXCEPT !.runningTimers = @ \ Range(sch.cronTasks), !.cronTasks = <<>>]

\* A load that pushes onto the old job list instead of a fresh one.
loadJobsNoReset(sch, file) ==
    IF file.kind = "missing" THEN [sch |-> sch, result |-> "idle"]
    ELSE IF file.kind \in {"unreadable", "invalidJson"}
    THEN [sch |-> sch, result |-> "failed"]
    ELSE IF file.kind = "notArray" THEN [sch |-> sch, result |-> "notArray"]
    ELSE LET l == loadEntries(sch.jobs, file.entries)
         IN IF l.raised
            THEN [sch |-> [sch EXCEPT !.jobs = l.jobs], result |-> "failed"]
            ELSE [sch |-> scheduleCronTasks([sch EXCEPT !.jobs = l.jobs]),
                  result |-> "loaded"]

\* Scheduler.loadJobs on the file as it is. result is what the call logged:
\* "idle" (no file), "notArray", "failed" (the catch block) or "loaded".
loadJobs(sch, file) ==
    IF file.kind = "missing" THEN [sch |-> sch, result |-> "idle"]
    ELSE IF file.kind \in {"unreadable", "invalidJson"}
    THEN [sch |-> sch, result |-> "failed"]
    ELSE IF file.kind = "notArray" THEN [sch |-> sch, result |-> "notArray"]
    ELSE LET l == loadEntries(<<>>, file.entries)
         IN IF l.raised
            THEN [sch |-> [sch EXCEPT !.jobs = l.jobs], result |-> "failed"]
            ELSE [sch |-> scheduleCronTasks([sch EXCEPT !.jobs = l.jobs]),
                  result |-> "loaded"]

\* A listener that loads the file without stopping the timers.
reloadNoStop(sch, file) == loadJobs(sch, file)

\* The listener start() registers with fs.watchFile: stop the timers, then
\* load the file.
reload(sch, file) == loadJobs(stopCronTasks(sch), file)

\* The listeners of jobs.json run one after the other when the file changes.
RECURSIVE runListeners(_, _, _)
runListeners(sch, file, n) ==
    IF n <= 1 THEN reload(sch, file)
    ELSE runListeners(reload(sch, file).sch, file, n - 1)

\* What the body of a scheduler task runs: the job its closure captures.
jobUnit(job) == "job " \o job.name \o ": " \o job.prompt

\* An enqueueJob that enqueues whether or not a channel resolves.
enqueueJobAnyChannel(st, job) ==
    LET taskId == "scheduler-" \o job.name \o "-" \o ToString(now)
    IN [state |-> enqueue(st, QueuedTask(taskId, "scheduler", "promise",
                                         jobUnit(job))).state,
        result |-> enqueue(st, QueuedTask(taskId, "scheduler", "promise",
                                          jobUnit(job))).result,
        id |-> taskId]

\* Scheduler.enqueueJob: the task id carries the clock; a job without a
\* channel of its own falls back to config.github.notifySlackChannel, and
\* without any channel nothing is enqueued.
enqueueJob(st, job) ==
    LET taskId == "scheduler-" \o job.name \o "-" \o ToString(now)
        channel == IF job.slackChannel # "" THEN job.slackChannel ELSE config.github
    IN IF channel = ""
       THEN [state |-> st, result |-> "no channel", id |-> taskId]
       ELSE [state |-> enqueue(st, QueuedTask(taskId, "scheduler", "promise",
                                              jobUnit(job))).state,
             result |-> enqueue(st, QueuedTask(taskId, "scheduler", "promise",
                                               jobUnit(job))).result,
             id |-> taskId]

(* ------------------------------- startup ------------------------------ *)

\* The value of an environment variable: undefined, or a string (here a
\* sequence of characters).
Unset == [defined |-> FALSE, text |-> <<>>]

EnvText(text) == [defined |-> TRUE, text |-> text]

\* Values of MAX_CONCURRENT: unset, empty, integers with and without a
\* sign or leading blank, a fraction, and text without a digit.
MaxConcurrentSettings ==
    {Unset, EnvText(<<>>), EnvText(<<"1">>), EnvText(<<"2">>), EnvText(<<"0">>),
     EnvText(<<"-", "1">>), EnvText(<<"+", "2">>), EnvText(<<" ", "2">>),
     EnvText(<<"1", ".", "5">>), EnvText(<<"a", "b", "c">>)}

\* process.env.X || fallback: undefined and '' are falsy.
orDefault(value, fallback) ==
    IF ~value.defined \/ value.text = <<>> THEN fallback ELSE value.text

DigitChars == <<"0", "1", "2", "3", "4", "5", "6", "7", "8", "9">>

isDigit(c) == \E i \in 1..Len(DigitChars) : DigitChars[i] = c

digitValue(c) == (CHOOSE i \in 1..Len(DigitChars) : DigitChars[i] = c) - 1

\* The text without its leading white space.
RECURSIVE trimStart(_)
trimStart(text) ==
    IF text # <<>> /\ Head(text) = " " THEN trimStart(Tail(text)) ELSE text

\* The number the longest prefix of decimal digits of `text` denotes, after
\* the `count` digits of value `acc` already read.
RECURSIVE readDigits(_, _, _)
readDigits(acc, count, text) ==
    IF text # <<>> /\ isDigit(Head(text))
    THEN readDigits(10 * acc + digitValue(Head(text)), count + 1, Tail(text))
    ELSE [value |-> acc, count |-> count]

\* parseInt(text, 10): skip white space, read a sign, read decimal digits up
\* to the first other character; NaN when there is no digit to read.
parseInt(text) ==
    LET trimmed == trimStart(text)
        signed == trimmed # <<>> /\ Head(trimmed) \in {"+", "-"}
        digits == readDigits(0, 0, IF signed THEN Tail(trimmed) ELSE trimmed)
    IN IF digits.count = 0 THEN [nan |-> TRUE, value |-> 0]
       ELSE [nan |-> FALSE,
             value |-> IF signed /\ Head(trimmed) = "-" THEN 0 - digits.value
                       ELSE digits.value]

\* config.server.maxConcurrent
configMaxConcurrent(setting) == parseInt(orDefault(setting, <<"2">>))

(* ------------------------------ actions ------------------------------- *)

\* A caller invokes taskQueue.enqueue({id, source, execute}).
Enqueue(id, source, execute) ==
    /\ admittedCount < MaxAdmitted
    /\ LET r == enqueue(QueueState, QueuedTask(id, source, execute, id))
       IN /\ queue' = r.state.queue
          /\ activeTasks' = r.state.activeTasks
          /\ startLog' = r.state.startLog
          /\ admittedCount' = r.state.admittedCount
          /\ lastCall' = [op |-> "enqueue", id |-> id, source |-> source,
                          result |-> r.result, logged |-> FALSE]
    /\ UNCHANGED <<maxConcurrent, settled>>
    /\ UNCHANGED <<producerVars, webhookVars, schedulerVars>>

\* The promise returned by an active task's execute() settles: the catch
\* handler logs a rejection, the finally handler deletes the key and drains.
\* An exception escaping that drain rejects the promise of finally, which
\* nothing handles.
Complete(id, outcome) ==
    /\ id \in DOMAIN activeTasks
    /\ activeTasks[id].execute = "promise"
    /\ LET d == onSettled(QueueState, id)
       IN /\ queue' = d.queue
          /\ activeTasks' = d.activeTasks
          /\ startLog' = d.startLog
          /\ settled' = settled \cup {activeTasks[id].uid}
          /\ lastCall' = [op |-> "complete", id |-> id,
                          source |-> activeTasks[id].source,
                          result |-> IF d.raised THEN "unhandledRejection"
                                     ELSE outcome,
                          logged |-> (outcome = "rejected")]
    /\ UNCHANGED <<maxConcurrent, admittedCount>>
    /\ UNCHANGED <<producerVars, webhookVars, schedulerVars>>

\* What a step of a producer records of itself.
ProducerCall(op) ==
    [op |-> op, id |-> "", source |-> "", result |-> "", logged |-> FALSE]

\* What a step of the heartbeat records: the ids of the tasks it offered to
\* the queue.
HeartbeatCall(op, offered) ==
    [op |-> op, id |-> "", source |-> "heartbeat", result |-> "",
     logged |-> FALSE, offered |-> offered]

\* The steps of the producers leave maxConcurrent and settled alone and
\* install the queue a handler returned.
InstallQueue(q) ==
    /\ q.admittedCount <= MaxAdmitted
    /\ queue' = q.queue
    /\ activeTasks' = q.activeTasks
    /\ startLog' = q.startLog
    /\ admittedCount' = q.admittedCount
    /\ UNCHANGED <<maxConcurrent, settled>>

\* PlankaHandler.handleCardMove / handleCardAssignment (the two are the same
\* code but for the payload fields the card id is read from): a payload
\* without a card id is dropped, any other enqueues planka-card-<id>.
HandlePlankaCard(event, cardId) ==
    /\ IF cardId = ""
       THEN UNCHANGED <<maxConcurrent, queue, activeTasks, admittedCount,
                        startLog, settled>>
       ELSE InstallQueue(enqueue(QueueState,
                                 QueuedTask(plankaTaskId(cardId), "planka",
                                            "promise", cardUnit(cardId))).state)
    /\ lastCall' = ProducerCall("planka")
    /\ UNCHANGED <<producerVars, webhookVars, schedulerVars>>

\* A pull_request event reaches GithubHandler.handlePullRequest.
HandlePullRequest(pr, action, draft) ==
    /\ InstallQueue(handlePullRequest(QueueState, pr, action, draft))
    /\ lastCall' = ProducerCall("pull_request")
    /\ UNCHANGED <<producerVars, webhookVars, schedulerVars>>

\* The interval timer (or start) runs Heartbeat.tick up to the point where
\* every check has returned or is suspended: the sweep, then the four checks
\* started in order, each on the state the one before it left.
HeartbeatTick(prs, cards, convs, systems) ==
    /\ Len(plankaAwaits) < MaxSuspendedTicks
    /\ \E swept \in {[HbState EXCEPT !.processedItems = cleanupProcessedItems(@)]} :
       \E github \in {checkGithubPRs(swept, prs)} :
       \E planka \in {checkPlankaCards(github, cards)} :
       \E freescout \in {checkFreescoutTickets(planka.hb, convs)} :
       \E beszel \in {checkBeszelHealth(freescout, systems)} :
          /\ InstallQueue(beszel.q)
          /\ processedItems' = beszel.processedItems
          /\ plankaAwaits' = plankaAwaits \o planka.suspended
          /\ lastCall' = HeartbeatCall("tick", beszel.offered)
    /\ UNCHANGED <<config, now, webhookVars, schedulerVars>>

\* The import a checkPlankaCards call awaits resolves and the call goes on.
PlankaImportResolved(i) ==
    /\ i \in 1..Len(plankaAwaits)
    /\ LET r == resumePlankaCards(HbState, plankaAwaits[i])
       IN /\ InstallQueue(r.hb.q)
          /\ processedItems' = r.hb.processedItems
          /\ plankaAwaits' = RemoveAt(plankaAwaits, i) \o r.suspended
          /\ lastCall' = HeartbeatCall("resume", r.hb.offered)
    /\ UNCHANGED <<config, now, webhookVars, schedulerVars>>

\* Time passes.
AdvanceClock(d) ==
    /\ now + d <= MaxTtlSpans * (itemTtlMs + 1)
    /\ now' = now + d
    /\ lastCall' = ProducerCall("clock")
    /\ UNCHANGED <<maxConcurrent, queue, activeTasks, admittedCount, startLog, settled>>
    /\ UNCHANGED <<config, processedItems, plankaAwaits, webhookVars, schedulerVars>>

\* POST /webhook/github with a buffered body.
GithubWebhook(req) ==
    /\ LET r == handleGithubWebhook(QueueState, recentDeliveries, req)
       IN /\ InstallQueue(r.q)
          /\ recentDeliveries' = r.recentDeliveries
          /\ lastCall' = [op |-> "delivery", id |-> req.deliveryId,
                          source |-> "github", result |-> r.status,
                          logged |-> FALSE]
    /\ UNCHANGED <<producerVars, nextCleanup, schedulerVars>>

\* The interval timer of the constructor runs cleanupDeliveries, one period
\* after the construction and one period after each run.
CleanupDeliveries ==
    /\ now >= nextCleanup
    /\ recentDeliveries' = cleanupDeliveries(recentDeliveries)
    /\ nextCleanup' = now + deduplicationTtlMs
    /\ lastCall' = ProducerCall("cleanupDeliveries")
    /\ UNCHANGED <<maxConcurrent, queue, activeTasks, admittedCount, startLog, settled>>
    /\ UNCHANGED <<producerVars, schedulerVars>>

\* Time passes to a later instant.
PassTime(t) ==
    /\ t > now
    /\ now' = t
    /\ lastCall' = ProducerCall("clock")
    /\ UNCHANGED <<maxConcurrent, queue, activeTasks, admittedCount, startLog, settled>>
    /\ UNCHANGED <<config, processedItems, plankaAwaits, webhookVars, schedulerVars>>

\* What a step of the scheduler records: the file it read, what loadJobs
\* logged, and the number of running timers it stopped.
SchedulerCall(op, file, result, stopped) ==
    [op |-> op, id |-> "", source |-> "scheduler", result |-> result,
     logged |-> (result = "failed"), file |-> file, stopped |-> stopped]

\* The steps of the scheduler install the fields a method returned.
InstallScheduler(sch) ==
    /\ jobs' = sch.jobs
    /\ cronTasks' = sch.cronTasks
    /\ runningTimers' = sch.runningTimers
    /\ loadCount' = sch.loadCount

\* Scheduler.start(): load the file as it is, then watch it.
SchedulerStart(file) ==
    /\ watchers < MaxStarts
    /\ loadCount < MaxLoads
    /\ LET r == loadJobs(SchedulerState, file)
       IN /\ InstallScheduler(r.sch)
          /\ lastCall' = SchedulerCall("start", file, r.result, 0)
    /\ watchers' = watchers + 1
    /\ UNCHANGED <<maxConcurrent, queue, activeTasks, admittedCount, startLog, settled>>
    /\ UNCHANGED <<producerVars, webhookVars>>

\* jobs.json has changed (to `file`) and fs.watchFile runs the listeners.
WatchCallback(file) ==
    /\ watchers > 0
    /\ loadCount + watchers <= MaxLoads
    /\ LET r == runListeners(SchedulerState, file, watchers)
       IN /\ InstallScheduler(r.sch)
          /\ lastCall' = SchedulerCall("reload", file, r.result,
                                        Cardinality(Range(cronTasks) \cap runningTimers))
    /\ UNCHANGED <<maxConcurrent, queue, activeTasks, admittedCount, startLog, settled>>
    /\ UNCHANGED <<producerVars, webhookVars, watchers>>

\* A stop that also drops the tasks that wait in the queue.
SchedulerStopDropsPending ==
    /\ InstallScheduler(stopCronTasks(SchedulerState))
    /\ watchers' = 0
    /\ lastCall' = SchedulerCall("stop", [kind |-> "missing", entries |-> <<>>], "",
                                 Cardinality(Range(cronTasks) \cap runningTimers))
    /\ queue' = <<>>
    /\ UNCHANGED <<maxConcurrent, activeTasks, admittedCount, startLog, settled>>
    /\ UNCHANGED <<producerVars, webhookVars>>

\* Scheduler.stop(): stop the timers and unwatch the file.
SchedulerStop ==
    /\ InstallScheduler(stopCronTasks(SchedulerState))
    /\ watchers' = 0
    /\ lastCall' = SchedulerCall("stop", [kind |-> "missing", entries |-> <<>>], "",
                                 Cardinality(Range(cronTasks) \cap runningTimers))
    /\ UNCHANGED <<maxConcurrent, queue, activeTasks, admittedCount, startLog, settled>>
    /\ UNCHANGED <<producerVars, webhookVars>>

\* A running timer reaches a time its expression matches and calls
\* enqueueJob(job).
CronFire(timer) ==
    /\ timer \in runningTimers
    /\ LET r == enqueueJob(QueueState, timer.job)
       IN /\ InstallQueue(r.state)
          /\ lastCall' = [op |-> "fire", id |-> r.id, source |-> "scheduler",
                          result |-> r.result, logged |-> (r.result = "no channel"),
                          timer |-> timer]
    /\ UNCHANGED <<producerVars, webhookVars, schedulerVars>>

QueueInit ==
    /\ maxConcurrent \in 1..MaxCeiling
    /\ queue = <<>>
    /\ activeTasks = EmptyMap
    /\ admittedCount = 0
    /\ startLog = <<>>
    /\ settled = {}
    /\ lastCall = [op |-> "none", id |-> "", source |-> "", result |-> "",
                   logged |-> FALSE]

ProducerInit ==
    /\ now = 0
    /\ processedItems = EmptyMap
    /\ plankaAwaits = <<>>

\* new WebhookServer(taskQueue)
WebhookInit ==
    /\ recentDeliveries = EmptyMap
    /\ nextCleanup = deduplicationTtlMs

\* new Scheduler(taskQueue, notifier)
SchedulerInit ==
    /\ jobs = <<>>
    /\ cronTasks = <<>>
    /\ runningTimers = {}
    /\ loadCount = 0
    /\ watchers = 0

Init ==
    /\ QueueInit
    /\ ProducerInit
    /\ WebhookInit
    /\ SchedulerInit
    /\ config = [github |-> "C0", freescout |-> "C0", beszel |-> "C0"]

Next ==
    \/ \E id \in TaskIds, source \in ClientSources, execute \in Executes :
          Enqueue(id, source, execute)
    \/ \E id \in TaskIds, outcome \in Outcomes : Complete(id, outcome)

Spec == Init /\ [][Next]_vars

\* The same queue under the scheduling of the event loop: the promise of a
\* started body that is going to settle does settle, and its handlers run.
\* Its client offers three ids under one tag.
FairIds == {"a", "b", "c"}

NextFair ==
    \/ \E id \in FairIds, execute \in Executes : Enqueue(id, "heartbeat", execute)
    \/ \E id \in FairIds, outcome \in Outcomes : Complete(id, outcome)

SpecFair ==
    /\ Init
    /\ [][NextFair]_vars
    /\ \A id \in FairIds : WF_vars(\E outcome \in Outcomes : Complete(id, outcome))

\* The queue as index.ts creates it: new TaskQueue(config.server.maxConcurrent)
\* under every setting of MAX_CONCURRENT that parses to a number. (A ceiling
\* of NaN is not a state of this model; in drain `size < NaN` is false, as
\* `size < 0` is.)
InitStartup ==
    /\ \E setting \in MaxConcurrentSettings :
          /\ ~configMaxConcurrent(setting).nan
          /\ maxConcurrent = configMaxConcurrent(setting).value
    /\ queue = <<>>
    /\ activeTasks = EmptyMap
    /\ admittedCount = 0
    /\ startLog = <<>>
    /\ settled = {}
    /\ lastCall = [op |-> "none", id |-> "", source |-> "", result |-> "",
                   logged |-> FALSE]
    /\ ProducerInit
    /\ WebhookInit
    /\ SchedulerInit
    /\ config = [github |-> "C0", freescout |-> "C0", beszel |-> "C0"]

NextStartup ==
    \/ \E id \in FairIds, execute \in Executes : Enqueue(id, "heartbeat", execute)
    \/ \E id \in FairIds, outcome \in Outcomes : Complete(id, outcome)

SpecStartup == InitStartup /\ [][NextStartup]_vars

\* The queue with the Planka and GitHub producers of the program as its
\* callers: the webhook handlers and the heartbeat, whose FreeScout and Beszel
\* checks are switched off (they find no conversation and no system).
InitProducers ==
    /\ QueueInit
    /\ ProducerInit
    /\ WebhookInit
    /\ SchedulerInit
    /\ config \in [github : Channels, freescout : {""}, beszel : {""}]

NextProducers ==
    \/ \E event \in {"cardMove", "cardAssignment"}, cardId \in Cards \cup {""} :
          HandlePlankaCard(event, cardId)
    \/ \E pr \in PullRequests, action \in PrActions, draft \in BOOLEAN :
          HandlePullRequest(pr, action, draft)
    \/ \E prs \in ListsOf(PullRequests), cards \in ListsOf(Cards) :
          HeartbeatTick(prs, cards, <<>>, <<>>)
    \/ \E i \in 1..MaxSuspendedTicks : PlankaImportResolved(i)
    \/ \E id \in DOMAIN activeTasks, outcome \in Outcomes : Complete(id, outcome)
    \/ \E d \in ClockSteps : AdvanceClock(d)

SpecProducers == InitProducers /\ [][NextProducers]_vars

\* The two idempotency caches: the webhook server with the GitHub handler
\* behind it, and the heartbeat with its GitHub check, on a queue with the
\* default ceiling. No notification channel is configured, so that the
\* heartbeat marks the pull requests it finds and offers nothing.
InitCaches ==
    /\ QueueInit
    /\ maxConcurrent = 2
    /\ ProducerInit
    /\ WebhookInit
    /\ SchedulerInit
    /\ config = [github |-> "", freescout |-> "", beszel |-> ""]

NextCaches ==
    \/ \E req \in GithubRequests : GithubWebhook(req)
    \/ CleanupDeliveries
    \/ \E prs \in ListsOf(PullRequests) : HeartbeatTick(prs, <<>>, <<>>, <<>>)
    \/ \E id \in DOMAIN activeTasks, outcome \in Outcomes : Complete(id, outcome)
    \/ \E t \in ClockInstants : PassTime(t)

SpecCaches == InitCaches /\ [][NextCaches]_vars

\* The instants around the multiples of the heartbeat's TTL.
ItemInstants == {t \in ClockInstants : t % itemTtlMs <= 1}

\* The heartbeat with its GitHub, FreeScout and Beszel checks (no Planka
\* board is configured), under every setting of the GitHub and FreeScout
\* channels and without a Beszel channel, on a queue with the default
\* ceiling.
InitHeartbeat ==
    /\ QueueInit
    /\ maxConcurrent = 2
    /\ ProducerInit
    /\ WebhookInit
    /\ SchedulerInit
    /\ config \in [github : Channels, freescout : Channels, beszel : {""}]

NextHeartbeat ==
    \/ \E prs \in ListsOf(PullRequests), convs \in ListsOf(Conversations),
          systems \in ListsOf(Systems) :
          HeartbeatTick(prs, <<>>, convs, systems)
    \/ \E id \in DOMAIN activeTasks, outcome \in Outcomes : Complete(id, outcome)
    \/ \E t \in ItemInstants : PassTime(t)

SpecHeartbeat == InitHeartbeat /\ [][NextHeartbeat]_vars

\* The heartbeat whose every tick finds the same pull request, conversation
\* and system: the items stay discoverable. setInterval keeps calling tick.
NextRediscovery ==
    \/ \E pr \in PullRequests, conv \in Conversations, system \in Systems :
          HeartbeatTick(<<pr>>, <<>>, <<conv>>, <<system>>)
    \/ \E id \in DOMAIN activeTasks, outcome \in Outcomes : Complete(id, outcome)
    \/ \E t \in ItemInstants : PassTime(t)

SpecRediscovery ==
    /\ InitHeartbeat
    /\ [][NextRediscovery]_vars
    /\ WF_vars(\E pr \in PullRequests, conv \in Conversations, system \in Systems :
                  HeartbeatTick(<<pr>>, <<>>, <<conv>>, <<system>>))

\* The scheduler with a queue of ceiling 1 behind it (MAX_CONCURRENT=1): the
\* task of a firing waits while the task of an earlier firing runs. No
\* fallback channel is configured: a job without a channel of its own
\* enqueues nothing.
InitScheduler ==
    /\ QueueInit
    /\ maxConcurrent = 1
    /\ ProducerInit
    /\ WebhookInit
    /\ SchedulerInit
    /\ config = [github |-> "", freescout |-> "", beszel |-> ""]

NextScheduler ==
    \/ \E file \in JobFiles : SchedulerStart(file)
    \/ \E file \in JobFiles : WatchCallback(file)
    \/ SchedulerStop
    \/ \E timer \in runningTimers : CronFire(timer)
    \/ \E id \in DOMAIN activeTasks, outcome \in Outcomes : Complete(id, outcome)
    \/ \E d \in ClockSteps : AdvanceClock(d)

SpecScheduler == InitScheduler /\ [][NextScheduler]_vars

(* ------------------------------ claims -------------------------------- *)

\* The uids of the tasks in the pending queue and in the active map.
pendingUids == {queue[i].uid : i \in 1..Len(queue)}

activeUids == {activeTasks[k].uid : k \in DOMAIN activeTasks}

startedUids == {startLog[i] : i \in 1..Len(startLog)}

\* C1: in every reachable state the number of active tasks is at most
\* maxConcurrent.
C1_ActiveAtMostCeiling == activeCount <= maxConcurrent

\* C1 witness: the ceiling is reached while a task waits.
C1_Witness == activeCount = maxConcurrent /\ Len(queue) > 0

\* C2: no key is both active and pending, and no key occurs twice in the
\* pending queue.
C2_KeysDisjointAndUnique ==
    /\ (DOMAIN activeTasks) \cap pendingIds = {}
    /\ \A i, j \in 1..Len(queue) : queue[i].id = queue[j].id => i = j

\* C2 witness: an active task and two pending ones.
C2_Witness == activeCount >= 1 /\ Len(queue) >= 2

\* C3: an enqueue of an id that is pending or active returns false, leaves
\* the pending queue and the active map unchanged and invokes no body,
\* whatever the source tag of the offered task.
C3_DuplicateRejected ==
    [][(lastCall'.op = "enqueue"
        /\ (lastCall'.id \in DOMAIN activeTasks \/ isPending(lastCall'.id)))
       => (/\ lastCall'.result = "false"
           /\ queue' = queue
           /\ activeTasks' = activeTasks
           /\ startLog' = startLog
           /\ admittedCount' = admittedCount)]_vars

\* C3 witness: an offer rejected against a task of another source tag.
C3_Witness ==
    /\ lastCall.op = "enqueue"
    /\ lastCall.result = "false"
    /\ \/ (lastCall.id \in DOMAIN activeTasks
           /\ activeTasks[lastCall.id].source # lastCall.source)
       \/ \E i \in 1..Len(queue) :
             queue[i].id = lastCall.id /\ queue[i].source # lastCall.source

\* C4: no two active tasks work on the same external item (the same Planka
\* card, the same pull request).
C4_OneActivePerUnit ==
    \A a, b \in DOMAIN activeTasks :
        activeTasks[a].unit = activeTasks[b].unit => a = b

\* C5: tasks start in admission order: the n-th execute() invoked is that of
\* the n-th admitted task.
C5_StartInAdmissionOrder == \A i \in 1..Len(startLog) : startLog[i] = i

\* C5 witness: a task that waited behind another pending task has started.
C5_Witness ==
    /\ Len(startLog) >= maxConcurrent + 2
    /\ lastCall.op = "complete"
    /\ Len(queue) >= 1

\* C6: an enqueue at the ceiling starts nothing, and a completion with a
\* non-empty pending queue starts the head of the queue in the same step.
C6_CompletionStartsHead ==
    [][/\ (lastCall'.op = "enqueue" /\ activeCount = maxConcurrent)
            => startLog' = startLog
       /\ (lastCall'.op = "complete" /\ Len(queue) > 0)
            => (/\ Head(queue).id \in DOMAIN activeTasks'
                /\ activeTasks'[Head(queue).id] = Head(queue)
                /\ queue' = Tail(queue)
                /\ startLog' = Append(startLog, Head(queue).uid))]_vars

\* C6 witness: the first completion has just started the task that waited.
C6_Witness ==
    /\ lastCall.op = "complete"
    /\ Cardinality(settled) = 1
    /\ Len(startLog) = maxConcurrent + 1

\* C7: a task whose body has failed does not stay in the active map: no
\* active task is one whose execute() has already thrown.
C7_FailedBodyFreesSlot ==
    \A id \in DOMAIN activeTasks : activeTasks[id].execute # "throws"

\* C8: every admitted task is in exactly one of pending, active and settled;
\* a pending one has not been invoked, an active or settled one has been
\* invoked exactly once, and a settled one is in neither set.
C8_ExactlyOnce ==
    /\ \A i, j \in 1..Len(startLog) : startLog[i] = startLog[j] => i = j
    /\ pendingUids \cap activeUids = {}
    /\ pendingUids \cap settled = {}
    /\ activeUids \cap settled = {}
    /\ pendingUids \cup activeUids \cup settled = 1..admittedCount
    /\ startedUids = activeUids \cup settled
    /\ Cardinality(pendingUids) = Len(queue)
    /\ Cardinality(activeUids) = activeCount

\* C8 witness: tasks have settled while others are active and pending.
C8_Witness == Cardinality(settled) >= 2 /\ activeCount >= 1 /\ Len(queue) >= 1

\* C9: enqueue never raises: the failure of a body does not reach the caller
\* of enqueue.
C9_EnqueueNeverRaises == lastCall.op = "enqueue" => lastCall.result # "raised"

\* C10: an enqueue of an id that is neither pending nor active returns true
\* and the task is admitted behind every task already pending.
C10_FreshReturnsTrue ==
    [][(lastCall'.op = "enqueue"
        /\ ~(lastCall'.id \in DOMAIN activeTasks)
        /\ ~isPending(lastCall'.id))
       => (/\ lastCall'.result = "true"
           /\ admittedCount' = admittedCount + 1)]_vars

\* The admission index and id of every task that is pending or active.
liveTasks ==
    {<<queue[i].uid, queue[i].id>> : i \in 1..Len(queue)}
        \cup {<<activeTasks[k].uid, activeTasks[k].id>> : k \in DOMAIN activeTasks}

\* The ids of the pending queue, head first.
queueIds == [i \in 1..Len(queue) |-> queue[i].id]

\* A queue with ceiling 2 to which a, b, c, d were offered in that order and
\* none of which has settled.
FourUnsettled ==
    /\ maxConcurrent = 2
    /\ settled = {}
    /\ liveTasks = {<<1, "a">>, <<2, "b">>, <<3, "c">>, <<4, "d">>}

\* C11: with ceiling 2, after a, b, c, d are enqueued in that order and none
\* has settled, the active set is {a, b} and the pending queue is [c, d];
\* when a then settles, the active set is {b, c} and the pending queue [d].
C11_FourTasksCeilingTwo ==
    [][/\ FourUnsettled'
            => (DOMAIN activeTasks' = {"a", "b"} /\ queueIds' = <<"c", "d">>)
       /\ (FourUnsettled /\ lastCall'.op = "complete" /\ lastCall'.id = "a")
            => (DOMAIN activeTasks' = {"b", "c"} /\ queueIds' = <<"d">>)]_vars

\* C11 witness: a has settled after the four were enqueued in order, and c
\* has taken its slot.
C11_Witness ==
    /\ maxConcurrent = 2
    /\ settled = {1}
    /\ lastCall.op = "complete" /\ lastCall.id = "a"
    /\ liveTasks = {<<2, "b">>, <<3, "c">>, <<4, "d">>}
    /\ DOMAIN activeTasks = {"b", "c"}
    /\ queueIds = <<"d">>

\* C12: provided every started body eventually settles, every admitted task
\* (one for which enqueue returned true, hence one that is pending or was
\* started at once) eventually becomes active.
C12_NoStarvation ==
    [](\A id \in DOMAIN activeTasks : activeTasks[id].execute = "promise")
        => (\A u \in 1..MaxAdmitted : (u \in pendingUids ~> u \in startedUids))

\* C12 witness: more tasks than the ceiling were admitted, each body that
\* started returned a promise, and every task that waited has been started.
C12_Witness ==
    /\ admittedCount > maxConcurrent
    /\ Len(startLog) = admittedCount
    /\ Cardinality(settled) >= 1
    /\ \A id \in DOMAIN activeTasks : activeTasks[id].execute = "promise"

\* The response to a delivery that passed the signature check.
Authenticated(call) ==
    /\ call.op = "delivery"
    /\ call.result \in {"200 duplicate", "400 Invalid JSON", "202 accepted"}

C14_DuplicateDeliveryDropped ==
    [][/\ (Authenticated(lastCall') /\ lastCall'.id \in DOMAIN recentDeliveries)
            => (/\ lastCall'.result = "200 duplicate"
                /\ queue' = queue
                /\ activeTasks' = activeTasks
                /\ startLog' = startLog
                /\ admittedCount' = admittedCount
                /\ recentDeliveries' = recentDeliveries)
       /\ (Authenticated(lastCall') /\ lastCall'.id # ""
               /\ lastCall'.result = "202 accepted")
            => lastCall'.id \notin DOMAIN recentDeliveries]_vars

\* C14 witness: a delivery was dispatched and enqueued a task, and the same
\* id has just been answered as a duplicate.
C14_Witness ==
    /\ lastCall.op = "delivery"
    /\ lastCall.result = "200 duplicate"
    /\ admittedCount = 1
    /\ recentDeliveries[lastCall.id] = now

\* The item keys of the heartbeat's GitHub, FreeScout and Beszel checks and
\* the id of the task each is offered under.
HeartbeatItems ==
    {[key |-> "github-pr:" \o pr.repo \o "/" \o ToString(pr.number),
      task |-> "heartbeat-github-pr-" \o pr.repo \o "-" \o ToString(pr.number)] :
        pr \in PullRequests}
    \cup {[key |-> "freescout:" \o c, task |-> "heartbeat-freescout-" \o c] :
            c \in Conversations}
    \cup {[key |-> "beszel-check:" \o y, task |-> "heartbeat-beszel-" \o y] :
            y \in Systems}

jobOf(entry) ==
    [name |-> entry.name, schedule |-> entry.schedule, prompt |-> entry.prompt,
     slackChannel |-> entry.slackChannel]

\* C16: a reload stops every timer that was running before it, and the
\* timers running after it are all made by the reload itself.
C16_ReloadStopsOldTimers ==
    [][lastCall'.op = "reload"
        => (/\ runningTimers \cap runningTimers' = {}
            /\ \A t \in runningTimers' : t.load > loadCount)]_vars

\* C16 witness: a reload has stopped running timers and started new ones.
C16_Witness ==
    /\ lastCall.op = "reload"
    /\ lastCall.stopped >= 1
    /\ runningTimers # {}

\* C17: after a reload that loaded a new list, a job that is not in the new
\* list has no running timer and every job of the new list has exactly one;
\* only running timers fire, and neither a firing, a completion nor the
\* passing of time changes the timers.
C17_ReloadSwapsJobs ==
    [][/\ (lastCall'.op = "reload" /\ lastCall'.result = "loaded")
            => \A v \in ValidEntries :
                  Cardinality({t \in runningTimers' : t.job = jobOf(v)})
                      = IF v \in Range(lastCall'.file.entries) THEN 1 ELSE 0
       /\ lastCall'.op = "fire" => lastCall'.timer \in runningTimers
       /\ lastCall'.op \in {"fire", "complete", "clock"}
            => UNCHANGED schedulerVars]_vars

\* C17 witness: job X fired (its task is active), then a reload replaced the
\* list by one with job Y alone.
C17_Witness ==
    /\ lastCall.op = "reload"
    /\ lastCall.result = "loaded"
    /\ "scheduler-X-0" \in DOMAIN activeTasks
    /\ \E t \in runningTimers : runningTimers = {t} /\ t.job.name = "Y"

\* C18: a reload whose load fails because the file cannot be read or is not
\* JSON leaves the scheduler as it was: the timers that were running go on
\* running.
C18_FailedReloadKeepsTimers ==
    [][(lastCall'.op = "reload"
        /\ lastCall'.file.kind \in {"unreadable", "invalidJson"})
       => (/\ runningTimers' = runningTimers
           /\ cronTasks' = cronTasks
           /\ jobs' = jobs)]_vars

\* C19: after a load of a job list, every valid entry of the list is in the
\* job list and has a running timer made by this load, wherever the invalid
\* entries of the list are, and no invalid entry is in the job list.
C19_ValidEntriesLoaded ==
    [][(lastCall'.op \in {"start", "reload"} /\ lastCall'.file.kind = "array")
       => (/\ \A v \in ValidEntries \cap Range(lastCall'.file.entries) :
                 /\ jobOf(v) \in Range(jobs')
                 /\ \E t \in runningTimers' : t.job = jobOf(v) /\ t.load = loadCount'
           /\ \A e \in InvalidEntries : jobOf(e) \notin Range(jobs'))]_vars

\* C20: a load (at start or at a reload) that finds no job file raises no
\* error and leaves the scheduler with no job and no running timer.
C20_MissingFileLeavesIdle ==
    [][(lastCall'.op \in {"start", "reload"} /\ lastCall'.file.kind = "missing")
       => (/\ lastCall'.result = "idle"
           /\ jobs' = <<>>
           /\ runningTimers' = {})]_vars

\* C21: a load (at start or at a reload) of a file that parses to something
\* other than an array leaves the scheduler with no job and no running
\* timer.
C21_NonListLeavesIdle ==
    [][(lastCall'.op \in {"start", "reload"} /\ lastCall'.file.kind = "notArray")
       => (/\ lastCall'.result = "notArray"
           /\ jobs' = <<>>
           /\ runningTimers' = {})]_vars

\* The pending and active tasks.
liveQueuedTasks ==
    {queue[i] : i \in 1..Len(queue)} \cup {activeTasks[k] : k \in DOMAIN activeTasks}

\* C22: a firing of a job for which a channel resolves is admitted: its
\* enqueue returns true, whatever the other timers have fired. (A timer does
\* not fire twice at one instant: a firing whose key is held by a task of
\* the same job at the same instant is not a case of the program.)
C22_FiringKeyUnique ==
    [][(/\ lastCall'.op = "fire"
        /\ lastCall'.result # "no channel"
        /\ ~\E t \in liveQueuedTasks :
              t.id = lastCall'.id /\ t.unit = jobUnit(lastCall'.timer.job))
       => lastCall'.result = "true"]_vars

\* C23: a firing of a job without a slackChannel, with no fallback channel
\* configured, does not call enqueue and leaves the queue as it was.
C23_NoChannelNoEnqueue ==
    [][(/\ lastCall'.op = "fire"
        /\ lastCall'.timer.job.slackChannel = ""
        /\ config.github = "")
       => (/\ lastCall'.result = "no channel"
           /\ queue' = queue
           /\ activeTasks' = activeTasks
           /\ admittedCount' = admittedCount
           /\ startLog' = startLog)]_vars

\* C23 witness: a firing was dropped for want of a channel while a task of
\* an earlier firing is active.
C23_Witness ==
    /\ lastCall.op = "fire"
    /\ lastCall.result = "no channel"
    /\ lastCall.timer.job.slackChannel = ""
    /\ activeCount >= 1

\* The items the GitHub and FreeScout checks of every tick find, each with
\* its cache key, the id of its task and the setting that holds its channel.
DiscoverableItems ==
    {[key |-> "github-pr:" \o pr.repo \o "/" \o ToString(pr.number),
      task |-> "heartbeat-github-pr-" \o pr.repo \o "-" \o ToString(pr.number),
      setting |-> "github"] : pr \in PullRequests}
    \cup {[key |-> "freescout:" \o c, task |-> "heartbeat-freescout-" \o c,
            setting |-> "freescout"] : c \in Conversations}

validatedJob(job) ==
    /\ job.name # ""
    /\ job.schedule # ""
    /\ job.prompt # ""
    /\ validate(job.schedule)

\* C25: in every reachable state of the scheduler every timer, tracked or
\* running, belongs to a job definition with a non-empty name, schedule and
\* prompt and a schedule that passed cron.validate, and so does the timer of
\* every firing.
C25_TimersOfValidatedJobs ==
    /\ \A t \in runningTimers \cup Range(cronTasks) : validatedJob(t.job)
    /\ \A i \in 1..Len(jobs) : validatedJob(jobs[i])
    /\ lastCall.op = "fire" => validatedJob(lastCall.timer.job)

\* C25 witness: a load of a file that holds an entry whose schedule is not
\* a cron expression has installed a timer, for the valid entry only.
C25_Witness ==
    /\ lastCall.op \in {"start", "reload"}
    /\ lastCall.result = "loaded"
    /\ \E i \in 1..Len(lastCall.file.entries) :
          lastCall.file.entries[i].schedule = "every day"
    /\ Cardinality(runningTimers) = 1

\* C26: the queue is work-conserving. Between the calls of enqueue and the
\* completion callbacks a task waits only while every slot is taken: if the
\* pending queue is non-empty, the active map holds maxConcurrent tasks.
C26_WorkConserving == Len(queue) > 0 => activeCount = maxConcurrent

\* C26 witness: a completion has freed a slot while two tasks waited; the
\* head of the queue took the slot at once and the other still waits.
C26_Witness ==
    /\ lastCall.op = "complete"
    /\ Len(queue) = 1
    /\ Len(startLog) = maxConcurrent + 1
    /\ activeCount = maxConcurrent

\* C27: a sweep removes every entry older than the TTL and keeps every
\* other entry as it was. cleanupDeliveries leaves exactly the ids whose age
\* is at most the TTL; after the sweep at the start of a heartbeat tick an
\* entry of age at most the TTL is still there with its timestamp, and an
\* older one is gone unless the checks of the same tick marked it afresh.
C27_SweepExact ==
    [][/\ lastCall'.op = "cleanupDeliveries"
            => (/\ \A id \in DOMAIN recentDeliveries :
                      IF now - recentDeliveries[id] > deduplicationTtlMs
                      THEN id \notin DOMAIN recentDeliveries'
                      ELSE /\ id \in DOMAIN recentDeliveries'
                           /\ recentDeliveries'[id] = recentDeliveries[id]
                /\ DOMAIN recentDeliveries' \subseteq DOMAIN recentDeliveries)
       /\ lastCall'.op = "tick"
            => \A key \in DOMAIN processedItems :
                  IF now - processedItems[key] > itemTtlMs
                  THEN key \in DOMAIN processedItems' => processedItems'[key] = now
                  ELSE /\ key \in DOMAIN processedItems'
                       /\ processedItems'[key] = processedItems[key]]_vars

\* C27 witness: cleanupDeliveries has run when an id was exactly as old as
\* the TTL and has kept it, while the heartbeat's cache holds an entry.
C27_Witness ==
    /\ lastCall.op = "cleanupDeliveries"
    /\ \E id \in DOMAIN recentDeliveries :
          now - recentDeliveries[id] = deduplicationTtlMs
    /\ DOMAIN processedItems # {}

\* C28: whatever MAX_CONCURRENT is set to, the ceiling of the queue created
\* at startup is a positive integer, and so a task never waits while nothing
\* is active.
C28_CeilingPositive ==
    /\ maxConcurrent >= 1
    /\ Len(queue) > 0 => activeCount > 0

\* C29: a reload and a stop of the scheduler leave the queue alone: the
\* pending queue and the active map are the same after the step as before
\* it, nothing is started or admitted by it, and every active task whose
\* body returned a promise is still there to complete.
C29_ReloadAndStopLeaveQueue ==
    [][lastCall'.op \in {"reload", "stop"}
        => (/\ queue' = queue
            /\ activeTasks' = activeTasks
            /\ startLog' = startLog
            /\ admittedCount' = admittedCount
            /\ settled' = settled)]_vars

\* C29 witness: the scheduler was stopped or reloaded while the task of one
\* firing ran and the task of another waited, and both are still there.
C29_Witness ==
    /\ lastCall.op \in {"reload", "stop"}
    /\ lastCall.stopped >= 1
    /\ activeCount = 1
    /\ Len(queue) = 1
    /\ queue[1].source = "scheduler"

\* C30: a key leaves the active map only in the completion callback of its
\* own task: in every step, a task that was active and is no longer active
\* under its key is the task whose body settled in that step. No enqueue,
\* no drain and no completion of another task removes or replaces it.
C30_RemovedOnlyWhenSettled ==
    [][\A id \in DOMAIN activeTasks :
          (id \notin DOMAIN activeTasks' \/ activeTasks'[id] # activeTasks[id])
              => (/\ lastCall'.op = "complete"
                  /\ lastCall'.id = id
                  /\ activeTasks[id].uid \in settled')]_vars

\* C30 witness: the first task admitted still holds its slot after two
\* later tasks have settled and others were enqueued.
C30_Witness ==
    /\ lastCall.op = "complete"
    /\ Cardinality(settled) >= 2
    /\ 1 \notin settled
    /\ \E id \in DOMAIN activeTasks : activeTasks[id].uid = 1
    /\ admittedCount = MaxAdmitted

\* C31: a key whose task has settled can be admitted again. An enqueue of
\* key k that follows the completion of the task with key k, while no task
\* with key k is pending or active, returns true and admits the task.
C31_SettledKeyReadmitted ==
    [][(/\ lastCall.op = "complete"
        /\ lastCall'.op = "enqueue"
        /\ lastCall'.id = lastCall.id
        /\ lastCall.id \notin DOMAIN activeTasks
        /\ ~isPending(lastCall.id))
       => (/\ lastCall'.result = "true"
           /\ admittedCount' = admittedCount + 1)]_vars

\* C32: a heartbeat tick that starts while the webhook task of a Planka
\* card (key planka-card-<id>) is pending or active does not mark the card
\* processed and offers no task for it: the card has no fresh entry in the
\* cache after the tick and heartbeat-planka-<id> is not among its offers.
C32_CardWithWebhookTaskSkipped ==
    [][\A cardId \in Cards :
          (/\ lastCall'.op = "tick"
           /\ (isActive(plankaTaskId(cardId)) \/ isPending(plankaTaskId(cardId))))
          => (/\ ("planka-card:" \o cardId) \in DOMAIN processedItems'
                    => (/\ ("planka-card:" \o cardId) \in DOMAIN processedItems
                        /\ processedItems'["planka-card:" \o cardId]
                              = processedItems["planka-card:" \o cardId])
              /\ ("heartbeat-planka-" \o cardId) \notin lastCall'.offered)]_vars

\* The number of checkPlankaCards calls suspended before their enqueue for
\* a card.
awaitsFor(awaits, cardId) ==
    Cardinality({i \in 1..Len(awaits) : awaits[i].cardId = cardId})

C34_MarkedImpliesOffered ==
    [][lastCall'.op = "tick"
        => \A item \in HeartbeatItems :
              (/\ item.key \notin DOMAIN cleanupProcessedItems(processedItems)
               /\ item.key \in DOMAIN processedItems')
                  => item.task \in lastCall'.offered]_vars

\* C35: a delivery answered 400 Invalid JSON leaves the delivery cache as
\* it was, so that its id is not yet known when the delivery comes again.
C35_InvalidJsonLeavesCache ==
    [][(lastCall'.op = "delivery" /\ lastCall'.result = "400 Invalid JSON")
        => recentDeliveries' = recentDeliveries]_vars

\* C36: the timestamp of an entry is written when the id is marked and not
\* again while the entry is there. A delivery id that is in the cache before
\* and after a step has the same timestamp; so has a heartbeat key, unless
\* the step is a tick whose sweep found the entry older than the TTL,
\* deleted it and whose check marked the item anew.
C36_TimestampNotRefreshed ==
    [][/\ \A id \in DOMAIN recentDeliveries \cap DOMAIN recentDeliveries' :
            recentDeliveries'[id] = recentDeliveries[id]
       /\ \A key \in DOMAIN processedItems \cap DOMAIN processedItems' :
            \/ processedItems'[key] = processedItems[key]
            \/ /\ lastCall'.op = "tick"
               /\ now - processedItems[key] > itemTtlMs
               /\ processedItems'[key] = now]_vars

\* C36 witness: a delivery id marked earlier has been sighted again and
\* answered as a duplicate, its timestamp still that of the marking, and a
\* heartbeat entry has kept the timestamp of an earlier tick.
C36_Witness ==
    /\ lastCall.op = "delivery"
    /\ lastCall.result = "200 duplicate"
    /\ recentDeliveries[lastCall.id] < now
    /\ \E key \in DOMAIN processedItems :
          processedItems[key] < now /\ now - processedItems[key] <= itemTtlMs

\* C37: from stop() until the next start() the scheduler is idle. While no
\* start() is in force (the file is not watched) no timer runs and none is
\* tracked, and no step is a cron firing or a reload of the job file.
C37_IdleAfterStop ==
    [][/\ watchers' = 0 => (runningTimers' = {} /\ cronTasks' = <<>>)
       /\ watchers = 0 => lastCall'.op \notin {"fire", "reload"}]_vars

\* C37 witness: a scheduler that had loaded a job and run its timer was
\* stopped, and time has passed since with no timer running.
C37_Witness ==
    /\ watchers = 0
    /\ loadCount >= 1
    /\ jobs # <<>>
    /\ lastCall.op = "clock"
    /\ runningTimers = {}
    /\ admittedCount >= 1

\* C38: after every load and reload, whether it succeeded or not, the
\* running timers are one for each entry of the current jobs list and no
\* others: as many timers as jobs, and the timers' places and jobs are the
\* places and entries of the list.
C38_TimersMatchJobs ==
    lastCall.op \in {"start", "reload"}
        => (/\ Cardinality(runningTimers) = Len(jobs)
            /\ {<<t.index, t.job>> : t \in runningTimers}
                  = {<<i, jobs[i]>> : i \in 1..Len(jobs)})

====
